---- MODULE Spec2Model ----
(***************************************************************************)
(* Model of the three Proxmox SDN Ansible modules                           *)
(*   src/proxmox_sdn_zones.py, src/proxmox_sdn_vnets.py,                    *)
(*   src/proxmox_sdn_subnets.py.                                            *)
(* Each module run is one process: AnsibleModule parses the parameters,     *)
(* main() translates them and dispatches on `state`, the handler class      *)
(* talks to the remote cluster API (list / post / delete), and the process  *)
(* ends through exit_json, fail_json or an uncaught Python exception.       *)
(* The remote cluster (zones, vnets, subnets collections) is the only       *)
(* state that survives a run.                                               *)
(***************************************************************************)
EXTENDS Integers, Sequences, FiniteSets, TLC

VARIABLES zones, vnets, subnets, pc, inv, pre, calls, result, prev

vars == <<zones, vnets, subnets, pc, inv, pre, calls, result, prev>>

-----------------------------------------------------------------------------
(* Bounds of the model: the identifiers the remote and the callers use.     *)

ZoneIds == {"zone-01", "zone-02"}
VnetIds == {"myvnet", "vnet2"}
SubnetIds == {"172.16.10.0/24"}

\* at most this many boolean flags of a zone invocation are supplied (not None)
MaxSetFlags == 1

-----------------------------------------------------------------------------
(* Python values.  None, True and False are opaque tokens; every other      *)
(* value is a str.  str() and str.lower() are modelled on the values the    *)
(* modules apply them to.                                                   *)

PyNone == "<None>"
PyTrue == "<True>"
PyFalse == "<False>"

BoolInputs == {PyNone, PyTrue, PyFalse}

PyStr(v) ==
    CASE v = PyNone -> "None"
      [] v = PyTrue -> "True"
      [] v = PyFalse -> "False"
      [] OTHER -> v

PyLower(s) ==
    CASE s = "None" -> "none"
      [] s = "True" -> "true"
      [] s = "False" -> "false"
      [] OTHER -> s

\* "{0}: {1}".format(a, b) style messages: the literal text and the
\* formatted arguments, in order
Format(text, args) == <<text>> \o args

\* the exception object a failing remote call raises
ApiError == "ApiError"

-----------------------------------------------------------------------------
(* Argument specifications.                                                 *)

StateChoices == {"present", "absent"}

ZoneTypeChoices == {"evpn", "faucet", "qinq", "simple", "vlan", "vxlan"}

VlanProtocolChoices == {"802.1q", "802.1ad"}

ZoneBoolKeys ==
    {"advertise-subnets", "bridge-disable-mac-learning",
     "disable-arp-nd-suppression", "exitnodes-local-routing"}

ZoneOptionalKeys ==
    {"bridge", "controller", "dhcp", "digest", "dns", "dnszone", "dp-id",
     "exitnodes", "exitnodes-primary", "ipam", "mac", "mtu", "nodes", "peers",
     "reversedns", "rt-import", "tag", "vrf-vxlan", "vxlan-port"}

ZoneArgKeys ==
    {"state", "zone", "type", "vlan-protocol"} \cup ZoneBoolKeys \cup ZoneOptionalKeys

VnetOptionalKeys == {"alias", "tag", "type"}

VnetArgKeys == {"state", "vnet", "zone", "vlanaware"} \cup VnetOptionalKeys

SubnetOptionalKeys == {"dhcp-dns-server", "dhcp-range", "dnszoneprefix", "gateway"}

SubnetArgKeys == {"state", "subnet", "type", "vnet", "snat"} \cup SubnetOptionalKeys

\* the boolean flags of a zone run as the caller supplied them
ZoneFlagInputs ==
    { f \in [ZoneBoolKeys -> BoolInputs] :
        Cardinality({k \in ZoneBoolKeys : f[k] # PyNone}) <= MaxSetFlags }

\* module.params of a zone run: choices enforced, vlan-protocol defaulted to
\* 802.1q when not supplied, optional str/int attributes not supplied
ZoneParams(state, zone_id, zone_type, vlan_protocol, flags) ==
    [k \in ZoneArgKeys |->
        CASE k = "state" -> state
          [] k = "zone" -> zone_id
          [] k = "type" -> zone_type
          [] k = "vlan-protocol" -> vlan_protocol
          [] k \in ZoneBoolKeys -> flags[k]
          [] OTHER -> PyNone]

\* module.params of a vnet run
VnetParams(state, vnet_id, zone_id, vlanaware) ==
    [k \in VnetArgKeys |->
        CASE k = "state" -> state
          [] k = "vnet" -> vnet_id
          [] k = "zone" -> zone_id
          [] k = "vlanaware" -> vlanaware
          [] OTHER -> PyNone]

\* module.params of a subnet run: type defaults to "subnet"
SubnetParams(state, subnet_id, vnet_id, snat) ==
    [k \in SubnetArgKeys |->
        CASE k = "state" -> state
          [] k = "subnet" -> subnet_id
          [] k = "vnet" -> vnet_id
          [] k = "type" -> "subnet"
          [] k = "snat" -> snat
          [] OTHER -> PyNone]

-----------------------------------------------------------------------------
(* Parameter translation in main().                                         *)

\* mutant: the comparison without .lower()
BoolToInt_nolower(v) == IF PyStr(v) = "true" THEN 1 ELSE 0

\* if str(module.params[k]).lower() == 'true': 1 else: 0
BoolToInt(v) == IF PyLower(PyStr(v)) = "true" THEN 1 ELSE 0

ZoneInfoKeys == ZoneArgKeys \ {"state"}

\* mutant: vlan-protocol left out of the list
unexpected_properties_short ==
    {"advertise-subnets", "exitnodes-local-routing",
     "bridge-disable-mac-learning", "disable-arp-nd-suppression"}

unexpected_properties ==
    {"vlan-protocol", "advertise-subnets", "exitnodes-local-routing",
     "bridge-disable-mac-learning", "disable-arp-nd-suppression"}

\* zone_infos as built in main(), after the pops for a simple zone
zone_infos(params) ==
    LET full == [k \in ZoneInfoKeys |->
                    IF k \in ZoneBoolKeys THEN BoolToInt(params[k]) ELSE params[k]]
        keep == IF params["type"] = "simple"
                THEN ZoneInfoKeys \ unexpected_properties
                ELSE ZoneInfoKeys
    IN  [k \in keep |-> full[k]]

VnetInfoKeys == VnetArgKeys \ {"state"}

vnet_infos(params) ==
    [k \in VnetInfoKeys |->
        IF k = "vlanaware" THEN BoolToInt(params[k]) ELSE params[k]]

SubnetInfoKeys == SubnetArgKeys \ {"state"}

subnet_infos(params) ==
    [k \in SubnetInfoKeys |->
        IF k = "snat" THEN BoolToInt(params[k]) ELSE params[k]]

-----------------------------------------------------------------------------
(* One run of a module: the remote collections as the run sees and changes  *)
(* them, the remote calls issued so far, and how the process ended.         *)

NoResult == [kind |-> "none"]

\* module.exit_json(changed=..., msg=...): SystemExit with a success result
exit_json(changed, msg) == [kind |-> "exit_json", changed |-> changed, msg |-> msg]

\* module.fail_json(msg=...): SystemExit with a failure result
fail_json(msg) == [kind |-> "fail_json", msg |-> msg]

\* an exception nothing catches: the process dies with a traceback
uncaught(exc) == [kind |-> "exception", exc |-> exc]

Running(x) == x.result.kind = "none"

NoArgs == [k \in {} |-> PyNone]

\* a remote call: HTTP verb, collection, addressed item, keyword arguments,
\* and whether the remote answered without an error
Call(op, coll, item, args, ok) ==
    [op |-> op, coll |-> coll, item |-> item, args |-> args, ok |-> ok]

Issue(x, c) == [x EXCEPT !.calls = Append(@, c)]

End(x, r) == [x EXCEPT !.result = r]

\* what the remote answers to each call of a run: TRUE = success,
\* FALSE = transport/API error
CallNames == {"list_exist", "list_child", "write"}

Envs == [CallNames -> BOOLEAN]

-----------------------------------------------------------------------------
(* src/proxmox_sdn_zones.py                                                 *)

\* self.proxmox_api.cluster.sdn.zones.get(): one entry per zone
zones_get(x) == {[zone |-> z] : z \in x.zones}

\* self.proxmox_api.cluster.sdn.vnets.get(): one entry per vnet
vnets_get(x) == x.vnets

\* mutant: a failing listing is swallowed and read as "no such zone"
is_sdn_zone_existing_swallow(x, zone_id, env) ==
    LET y == Issue(x, Call("get", "zones", PyNone, NoArgs, env["list_exist"]))
    IN  [x |-> y,
         ret |-> env["list_exist"] /\ \E zone \in zones_get(y) : zone["zone"] = zone_id]

\* ProxmoxSdnZones.is_sdn_zone_existing: the listing and the scan are inside
\* the try; a failing listing ends the run through fail_json
is_sdn_zone_existing(x, zone_id, env) ==
    LET y == Issue(x, Call("get", "zones", PyNone, NoArgs, env["list_exist"]))
    IN  IF env["list_exist"]
        THEN [x |-> y, ret |-> \E zone \in zones_get(y) : zone["zone"] = zone_id]
        ELSE [x |-> End(y, fail_json(Format("Unable to retrieve zones: ", <<ApiError>>))),
              ret |-> FALSE]

\* mutant: the scan compares the vnet's own id with the zone id
is_sdn_zone_empty_wrongfield(x, zone_id, env) ==
    LET y == Issue(x, Call("get", "vnets", PyNone, NoArgs, env["list_child"]))
        value == Cardinality({vnet \in vnets_get(y) : vnet["vnet"] = zone_id})
    IN  IF env["list_child"]
        THEN [x |-> y, ret |-> (value = 0)]
        ELSE [x |-> End(y, uncaught(ApiError)), ret |-> FALSE]

\* ProxmoxSdnZones.is_sdn_zone_empty: no try around the listing, so a failing
\* listing leaves the method as an exception
is_sdn_zone_empty(x, zone_id, env) ==
    LET y == Issue(x, Call("get", "vnets", PyNone, NoArgs, env["list_child"]))
        value == Cardinality({vnet \in vnets_get(y) : vnet["zone"] = zone_id})
    IN  IF env["list_child"]
        THEN [x |-> y, ret |-> (value = 0)]
        ELSE [x |-> End(y, uncaught(ApiError)), ret |-> FALSE]

\* self.proxmox_api.cluster.sdn.zones.post(**zone_infos) inside try/except
zones_post(x, zone_id, infos, env) ==
    LET y == Issue(x, Call("post", "zones", PyNone, infos, env["write"]))
    IN  IF env["write"]
        THEN [y EXCEPT !.zones = @ \cup {infos["zone"]}]
        ELSE End(y, fail_json(Format("Failed to create zone with ID {0}: {1}",
                                     <<zone_id, ApiError>>)))

\* self.proxmox_api.cluster.sdn.zones(zone_id).delete() inside try/except
zones_delete(x, zone_id, env) ==
    LET y == Issue(x, Call("delete", "zones", zone_id, NoArgs, env["write"]))
    IN  IF env["write"]
        THEN [y EXCEPT !.zones = @ \ {zone_id}]
        ELSE End(y, fail_json(Format("Failed to delete zone with ID {0}: {1}",
                                     <<zone_id, ApiError>>)))

\* mutant: an existing zone is posted again instead of ending the run
create_update_sdn_zone_overwrite(x, zone_id, infos, check_mode, env) ==
    LET e == is_sdn_zone_existing(x, zone_id, env)
    IN  IF ~Running(e.x) THEN e.x
        ELSE IF check_mode THEN e.x
        ELSE zones_post(e.x, zone_id, infos, env)

\* ProxmoxSdnZones.create_update_sdn_zone; a run still Running at the end
\* has returned to main()
create_update_sdn_zone(x, zone_id, infos, check_mode, env) ==
    LET e == is_sdn_zone_existing(x, zone_id, env)
    IN  IF ~Running(e.x) THEN e.x
        ELSE IF e.ret
        THEN End(e.x, exit_json(FALSE, Format("Zone {0} already exists", <<zone_id>>)))
        ELSE IF check_mode THEN e.x
        ELSE zones_post(e.x, zone_id, infos, env)

\* mutant: the delete ignores check mode
delete_sdn_zone_nocheck(x, zone_id, check_mode, env) ==
    LET e == is_sdn_zone_existing(x, zone_id, env)
    IN  IF ~Running(e.x) THEN e.x
        ELSE IF ~e.ret
        THEN End(e.x, exit_json(FALSE, Format("Zone {0} doesn't exist", <<zone_id>>)))
        ELSE LET m == is_sdn_zone_empty(e.x, zone_id, env)
             IN  IF ~Running(m.x) THEN m.x
                 ELSE IF m.ret
                 THEN zones_delete(m.x, zone_id, env)
                 ELSE End(m.x, fail_json(Format(
                        "Can't delete zone {0} with vnets. Please remove vnets from zone first.",
                        <<zone_id>>)))

\* ProxmoxSdnZones.delete_sdn_zone
delete_sdn_zone(x, zone_id, check_mode, env) ==
    LET e == is_sdn_zone_existing(x, zone_id, env)
    IN  IF ~Running(e.x) THEN e.x
        ELSE IF ~e.ret
        THEN End(e.x, exit_json(FALSE, Format("Zone {0} doesn't exist", <<zone_id>>)))
        ELSE LET m == is_sdn_zone_empty(e.x, zone_id, env)
             IN  IF ~Running(m.x) THEN m.x
                 ELSE IF m.ret
                 THEN IF check_mode THEN m.x
                      ELSE zones_delete(m.x, zone_id, env)
                 ELSE End(m.x, fail_json(Format(
                        "Can't delete zone {0} with vnets. Please remove vnets from zone first.",
                        <<zone_id>>)))

\* main() of proxmox_sdn_zones.py from the state dispatch on
main_zones(x, params, check_mode, env) ==
    LET zone_id == params["zone"]
        r == IF params["state"] = "present"
             THEN create_update_sdn_zone(x, zone_id, zone_infos(params), check_mode, env)
             ELSE delete_sdn_zone(x, zone_id, check_mode, env)
        message == IF params["state"] = "present"
                   THEN Format("Creating/updating zone ID: {}", <<zone_id>>)
                   ELSE Format("Deleting zone ID: {}", <<zone_id>>)
    IN  IF Running(r) THEN End(r, exit_json(TRUE, message)) ELSE r

-----------------------------------------------------------------------------
(* src/proxmox_sdn_vnets.py                                                 *)

\* self.proxmox_api.cluster.sdn.vnets(vnet_id).subnets.get(): the subnets
\* of one vnet
subnets_get(x, vnet_id) == {subnet \in x.subnets : subnet["vnet"] = vnet_id}

\* ProxmoxSdnVnets.is_sdn_vnet_existing
is_sdn_vnet_existing(x, vnet_id, env) ==
    LET y == Issue(x, Call("get", "vnets", PyNone, NoArgs, env["list_exist"]))
    IN  IF env["list_exist"]
        THEN [x |-> y, ret |-> \E vnet \in vnets_get(y) : vnet["vnet"] = vnet_id]
        ELSE [x |-> End(y, fail_json(Format("Unable to retrieve vnets: ", <<ApiError>>))),
              ret |-> FALSE]

\* ProxmoxSdnVnets.is_sdn_vnet_empty: no try around the listing
is_sdn_vnet_empty(x, vnet_id, env) ==
    LET y == Issue(x, Call("get", "subnets", vnet_id, NoArgs, env["list_child"]))
        value == Cardinality({subnet \in subnets_get(y, vnet_id) : subnet["vnet"] = vnet_id})
    IN  IF env["list_child"]
        THEN [x |-> y, ret |-> (value = 0)]
        ELSE [x |-> End(y, uncaught(ApiError)), ret |-> FALSE]

\* mutant: the except branch of the post swallows the error
vnets_post_swallow(x, vnet_id, infos, env) ==
    LET y == Issue(x, Call("post", "vnets", PyNone, infos, env["write"]))
    IN  IF env["write"]
        THEN [y EXCEPT !.vnets = @ \cup {[vnet |-> infos["vnet"], zone |-> infos["zone"]]}]
        ELSE y

\* self.proxmox_api.cluster.sdn.vnets.post(**vnet_infos) inside try/except
vnets_post(x, vnet_id, infos, env) ==
    LET y == Issue(x, Call("post", "vnets", PyNone, infos, env["write"]))
    IN  IF env["write"]
        THEN [y EXCEPT !.vnets = @ \cup {[vnet |-> infos["vnet"], zone |-> infos["zone"]]}]
        ELSE End(y, fail_json(Format("Failed to create vnet with ID {0}: {1}",
                                     <<vnet_id, ApiError>>)))

\* self.proxmox_api.cluster.sdn.vnets(vnet_id).delete() inside try/except
vnets_delete(x, vnet_id, env) ==
    LET y == Issue(x, Call("delete", "vnets", vnet_id, NoArgs, env["write"]))
    IN  IF env["write"]
        THEN [y EXCEPT !.vnets = {vnet \in @ : vnet["vnet"] # vnet_id}]
        ELSE End(y, fail_json(Format("Failed to delete vnet with ID {0}: {1}",
                                     <<vnet_id, ApiError>>)))

\* mutant: the post is tried first and the listing is read afterwards
create_update_sdn_vnet_postfirst(x, vnet_id, infos, check_mode, env) ==
    IF check_mode THEN is_sdn_vnet_existing(x, vnet_id, env).x
    ELSE LET y == vnets_post(x, vnet_id, infos, env)
         IN  IF ~Running(y) THEN y ELSE is_sdn_vnet_existing(y, vnet_id, env).x

\* ProxmoxSdnVnets.create_update_sdn_vnet
create_update_sdn_vnet(x, vnet_id, infos, check_mode, env) ==
    LET e == is_sdn_vnet_existing(x, vnet_id, env)
    IN  IF ~Running(e.x) THEN e.x
        ELSE IF e.ret
        THEN End(e.x, exit_json(FALSE, Format("Vnet {0} already exists", <<vnet_id>>)))
        ELSE IF check_mode THEN e.x
        ELSE vnets_post(e.x, vnet_id, infos, env)

\* ProxmoxSdnVnets.delete_sdn_vnet (defined by the class; main() of
\* proxmox_sdn_vnets.py has no call of it)
ProxmoxSdnVnets_delete_sdn_vnet(x, vnet_id, check_mode, env) ==
    LET e == is_sdn_vnet_existing(x, vnet_id, env)
    IN  IF ~Running(e.x) THEN e.x
        ELSE IF ~e.ret
        THEN End(e.x, exit_json(FALSE, Format("Vnet {0} doesn't exist", <<vnet_id>>)))
        ELSE LET m == is_sdn_vnet_empty(e.x, vnet_id, env)
             IN  IF ~Running(m.x) THEN m.x
                 ELSE IF m.ret
                 THEN IF check_mode THEN m.x
                      ELSE vnets_delete(m.x, vnet_id, env)
                 ELSE End(m.x, fail_json(Format(
                        "Can't delete vnet {0} with subnets. Please remove subnets from vnet first.",
                        <<vnet_id>>)))

\* main() of proxmox_sdn_vnets.py from the state dispatch on: the absent
\* branch only fills in the result, it calls nothing
main_vnets(x, params, check_mode, env) ==
    LET vnet_id == params["vnet"]
        r == IF params["state"] = "present"
             THEN create_update_sdn_vnet(x, vnet_id, vnet_infos(params), check_mode, env)
             ELSE x
        message == IF params["state"] = "present"
                   THEN Format("Creating/updating vnet ID: {}", <<vnet_id>>)
                   ELSE Format("Deleting vnet ID: {}", <<vnet_id>>)
    IN  IF Running(r) THEN End(r, exit_json(TRUE, message)) ELSE r

-----------------------------------------------------------------------------
(* src/proxmox_sdn_subnets.py                                               *)

\* the methods class ProxmoxSdnSubnets defines; its base class ProxmoxAnsible
\* (community.general) has no SDN helpers
ProxmoxSdnSubnets_methods ==
    {"is_sdn_subnet_existing", "create_update_sdn_subnet", "delete_sdn_vnet"}

\* ProxmoxSdnSubnets.is_sdn_subnet_existing
is_sdn_subnet_existing(x, subnet_id, vnet_id, env) ==
    LET y == Issue(x, Call("get", "subnets", vnet_id, NoArgs, env["list_exist"]))
    IN  IF env["list_exist"]
        THEN [x |-> y,
              ret |-> \E subnet \in subnets_get(y, vnet_id) : subnet["subnet"] = subnet_id]
        ELSE [x |-> End(y, fail_json(Format("Unable to retrieve subnets: ", <<ApiError>>))),
              ret |-> FALSE]

\* self.proxmox_api.cluster.sdn.vnets(vnet_id).subnets.post(**subnet_infos)
subnets_post(x, subnet_id, vnet_id, infos, env) ==
    LET y == Issue(x, Call("post", "subnets", vnet_id, infos, env["write"]))
    IN  IF env["write"]
        THEN [y EXCEPT !.subnets = @ \cup {[subnet |-> infos["subnet"], vnet |-> vnet_id]}]
        ELSE End(y, fail_json(Format("Failed to create subnet with ID {0}: {1}",
                                     <<subnet_id, ApiError>>)))

\* self.proxmox_api.cluster.sdn.vnets(vnet_id).subnets(subnet_id).delete()
subnets_delete(x, subnet_id, vnet_id, env) ==
    LET y == Issue(x, Call("delete", "subnets", subnet_id, NoArgs, env["write"]))
    IN  IF env["write"]
        THEN [y EXCEPT !.subnets = @ \ {[subnet |-> subnet_id, vnet |-> vnet_id]}]
        ELSE End(y, fail_json(Format("Failed to delete subnet with ID {0}: {1}",
                                     <<subnet_id, ApiError>>)))

\* mutant: check mode reports "no change" for a subnet it would create
create_update_sdn_subnet_drynochange(x, subnet_id, vnet_id, infos, check_mode, env) ==
    LET e == is_sdn_subnet_existing(x, subnet_id, vnet_id, env)
    IN  IF ~Running(e.x) THEN e.x
        ELSE IF e.ret
        THEN End(e.x, exit_json(FALSE, Format("Subnet {0} already exists", <<subnet_id>>)))
        ELSE IF check_mode
        THEN End(e.x, exit_json(FALSE, Format("Subnet {0} would be created", <<subnet_id>>)))
        ELSE subnets_post(e.x, subnet_id, vnet_id, infos, env)

\* ProxmoxSdnSubnets.create_update_sdn_subnet
create_update_sdn_subnet(x, subnet_id, vnet_id, infos, check_mode, env) ==
    LET e == is_sdn_subnet_existing(x, subnet_id, vnet_id, env)
    IN  IF ~Running(e.x) THEN e.x
        ELSE IF e.ret
        THEN End(e.x, exit_json(FALSE, Format("Subnet {0} already exists", <<subnet_id>>)))
        ELSE IF check_mode THEN e.x
        ELSE subnets_post(e.x, subnet_id, vnet_id, infos, env)

\* ProxmoxSdnSubnets.delete_sdn_vnet (the subnet delete).  Line 131 looks up
\* self.is_sdn_vnet_empty, which ProxmoxSdnSubnets does not have: the lookup
\* raises AttributeError, outside any try, before the method is called.
\* (The "doesn't exist" message is formatted with vnet_id.)
ProxmoxSdnSubnets_delete_sdn_vnet(x, subnet_id, vnet_id, check_mode, env) ==
    LET e == is_sdn_subnet_existing(x, subnet_id, vnet_id, env)
    IN  IF ~Running(e.x) THEN e.x
        ELSE IF ~e.ret
        THEN End(e.x, exit_json(FALSE, Format("Subnet {0} doesn't exist", <<vnet_id>>)))
        ELSE IF "is_sdn_vnet_empty" \notin ProxmoxSdnSubnets_methods
        THEN End(e.x, uncaught("AttributeError"))
        ELSE LET m == is_sdn_vnet_empty(e.x, vnet_id, env)
             IN  IF ~Running(m.x) THEN m.x
                 ELSE IF m.ret
                 THEN IF check_mode
                      THEN End(m.x, fail_json(
                             <<"Failed to delete subnet with ID {0}: vnet is empty.">>))
                      ELSE m.x
                 ELSE subnets_delete(m.x, subnet_id, vnet_id, env)

\* main() of proxmox_sdn_subnets.py from the state dispatch on
main_subnets(x, params, check_mode, env) ==
    LET subnet_id == params["subnet"]
        vnet_id == params["vnet"]
        r == IF params["state"] = "present"
             THEN create_update_sdn_subnet(x, subnet_id, vnet_id, subnet_infos(params),
                                           check_mode, env)
             ELSE ProxmoxSdnSubnets_delete_sdn_vnet(x, subnet_id, vnet_id, check_mode, env)
        message == IF params["state"] = "present"
                   THEN Format("Creating/updating subnet ID: {}", <<subnet_id>>)
                   ELSE Format("Deleting subnet ID: {}", <<subnet_id>>)
    IN  IF Running(r) THEN End(r, exit_json(TRUE, message)) ELSE r

-----------------------------------------------------------------------------
(* The state machine: module runs, one at a time, against the remote.       *)

\* the remote collections a cluster can hold: vnet ids are unique, a subnet
\* is unique within its vnet, and the cluster starts with every vnet in an
\* existing zone and every subnet in an existing vnet
RemoteVnets ==
    { vs \in SUBSET [vnet : VnetIds, zone : ZoneIds] :
        \A a, b \in vs : a["vnet"] = b["vnet"] => a = b }

RemoteSubnets == SUBSET [subnet : SubnetIds, vnet : VnetIds]

NoInv == [kind |-> "none"]

\* the run before the current one, when the same task is run twice in a row
NoPrev == [inv |-> NoInv]

Remote == [zones |-> zones, vnets |-> vnets, subnets |-> subnets]

\* the run context main() starts from
Start == [zones |-> zones, vnets |-> vnets, subnets |-> subnets,
          calls |-> <<>>, result |-> NoResult]

Init ==
    /\ zones \in SUBSET ZoneIds
    /\ vnets \in RemoteVnets
    /\ subnets \in RemoteSubnets
    /\ \A v \in vnets : v["zone"] \in zones
    /\ \A s \in subnets : \E v \in vnets : v["vnet"] = s["vnet"]
    /\ pc = "idle"
    /\ inv = NoInv
    /\ pre = Remote
    /\ calls = <<>>
    /\ result = NoResult
    /\ prev = NoPrev

\* the run ends: remote, calls and result are those of the finished context
Finish(kind, params, check_mode, x) ==
    /\ pc' = "done"
    /\ inv' = [kind |-> kind, params |-> params, check_mode |-> check_mode]
    /\ pre' = Remote
    /\ zones' = x.zones
    /\ vnets' = x.vnets
    /\ subnets' = x.subnets
    /\ calls' = x.calls
    /\ result' = x.result

\* one run of proxmox_sdn_zones.py
proxmox_sdn_zones ==
    /\ pc = "idle"
    /\ UNCHANGED prev
    /\ \E state \in StateChoices, zone_id \in ZoneIds, zone_type \in ZoneTypeChoices,
          vlan_protocol \in VlanProtocolChoices, flags \in ZoneFlagInputs,
          check_mode \in BOOLEAN, env \in Envs :
          LET params == ZoneParams(state, zone_id, zone_type, vlan_protocol, flags)
          IN  Finish("zone", params, check_mode, main_zones(Start, params, check_mode, env))

\* one run of proxmox_sdn_vnets.py
proxmox_sdn_vnets ==
    /\ pc = "idle"
    /\ UNCHANGED prev
    /\ \E state \in StateChoices, vnet_id \in VnetIds, zone_id \in ZoneIds,
          vlanaware \in BoolInputs, check_mode \in BOOLEAN, env \in Envs :
          LET params == VnetParams(state, vnet_id, zone_id, vlanaware)
          IN  Finish("vnet", params, check_mode, main_vnets(Start, params, check_mode, env))

\* one run of proxmox_sdn_subnets.py
proxmox_sdn_subnets ==
    /\ pc = "idle"
    /\ UNCHANGED prev
    /\ \E state \in StateChoices, subnet_id \in SubnetIds, vnet_id \in VnetIds,
          snat \in BoolInputs, check_mode \in BOOLEAN, env \in Envs :
          LET params == SubnetParams(state, subnet_id, vnet_id, snat)
          IN  Finish("subnet", params, check_mode, main_subnets(Start, params, check_mode, env))

\* the process is gone; the next run starts from the remote it left
NextRun ==
    /\ pc = "done"
    /\ pc' = "idle"
    /\ inv' = NoInv
    /\ pre' = Remote
    /\ calls' = <<>>
    /\ result' = NoResult
    /\ prev' = NoPrev
    /\ UNCHANGED <<zones, vnets, subnets>>

Next == proxmox_sdn_zones \/ proxmox_sdn_vnets \/ proxmox_sdn_subnets \/ NextRun

Spec == Init /\ [][Next]_vars

\* The same task run a second time, right after its first run and with
\* nothing else touching the remote: the playbook is applied again (or
\* applied after a check-mode run).  The second run is a new process with the
\* same module.params, outside check mode, against the remote the first run
\* left; the first run is kept in prev.
main_again(x, env) ==
    CASE inv.kind = "zone" -> main_zones(x, inv.params, FALSE, env)
      [] inv.kind = "vnet" -> main_vnets(x, inv.params, FALSE, env)
      [] inv.kind = "subnet" -> main_subnets(x, inv.params, FALSE, env)

RunAgain ==
    /\ pc = "done"
    /\ prev = NoPrev
    /\ prev' = [inv |-> inv, pre |-> pre, calls |-> calls, result |-> result]
    /\ \E env \in Envs : Finish(inv.kind, inv.params, FALSE, main_again(Start, env))

NextTwice ==
    proxmox_sdn_zones \/ proxmox_sdn_vnets \/ proxmox_sdn_subnets \/ RunAgain \/ NextRun

SpecTwice == Init /\ [][NextTwice]_vars

-----------------------------------------------------------------------------
(* Vocabulary of the properties: what a finished run was asked to do, what  *)
(* the remote held when it started, and what it did.                        *)

Done == pc = "done"

Present == Done /\ inv.params["state"] = "present"

Absent == Done /\ inv.params["state"] = "absent"

TargetId ==
    CASE inv.kind = "zone" -> inv.params["zone"]
      [] inv.kind = "vnet" -> inv.params["vnet"]
      [] inv.kind = "subnet" -> inv.params["subnet"]

\* the target was in the remote collection when the run started
ExistedBefore ==
    CASE inv.kind = "zone" -> TargetId \in pre.zones
      [] inv.kind = "vnet" -> \E v \in pre.vnets : v["vnet"] = TargetId
      [] inv.kind = "subnet" ->
            [subnet |-> TargetId, vnet |-> inv.params["vnet"]] \in pre.subnets

\* the target is in the remote collection now
ExistsNow ==
    CASE inv.kind = "zone" -> TargetId \in zones
      [] inv.kind = "vnet" -> \E v \in vnets : v["vnet"] = TargetId
      [] inv.kind = "subnet" ->
            [subnet |-> TargetId, vnet |-> inv.params["vnet"]] \in subnets

\* a child referenced the target when the run started
ChildrenBefore ==
    CASE inv.kind = "zone" -> \E v \in pre.vnets : v["zone"] = TargetId
      [] inv.kind = "vnet" -> \E s \in pre.subnets : s["vnet"] = TargetId
      [] inv.kind = "subnet" -> FALSE

IsRead(c) == c.op = "get"

IsWrite(c) == c.op \in {"post", "delete"}

Creates == {i \in 1..Len(calls) : calls[i].op = "post"}

Deletes == {i \in 1..Len(calls) : calls[i].op = "delete"}

Reads == {i \in 1..Len(calls) : IsRead(calls[i])}

AllCallsOk == \A i \in 1..Len(calls) : calls[i].ok

Unchanged == result.kind = "exit_json" /\ result.changed = FALSE

Changed == result.kind = "exit_json" /\ result.changed = TRUE

Fatal == result.kind \in {"fail_json", "exception"}

RemoteUntouched == Remote = pre

\* the collection a kind's existence listing reads
OwnCollection ==
    CASE inv.kind = "zone" -> "zones"
      [] inv.kind = "vnet" -> "vnets"
      [] inv.kind = "subnet" -> "subnets"

-----------------------------------------------------------------------------
(* C1 *)

\* C1: a present-state run whose target is already in the remote listing
\* ends with changed=false, issues no create and no delete, in real and in
\* check mode, and leaves the remote as it was.
C1_PresentExistingIsNoop ==
    (Present /\ ExistedBefore /\ AllCallsOk)
        => /\ Unchanged
           /\ Creates = {} /\ Deletes = {}
           /\ RemoteUntouched

C1_Witness ==
    /\ Present /\ ExistedBefore /\ AllCallsOk
    /\ inv.kind = "subnet" /\ ~inv.check_mode
    /\ Len(calls) = 1 /\ Unchanged

\* C2: an absent-state run whose target is not in the remote ends with
\* changed=false and issues no create and no delete.
C2_AbsentMissingIsNoop ==
    (Absent /\ ~ExistedBefore /\ AllCallsOk)
        => /\ Unchanged
           /\ Creates = {} /\ Deletes = {}

\* C3: an absent-state zone or vnet run on an existing resource that a child
\* references ends in a fatal error, never a success, with no create and no
\* delete.
C3_AbsentWithChildrenFails ==
    (Absent /\ inv.kind \in {"zone", "vnet"} /\ ExistedBefore /\ ChildrenBefore
        /\ AllCallsOk)
        => /\ Fatal
           /\ Creates = {} /\ Deletes = {}

\* C4: a check-mode run issues no create and no delete call, whatever the
\* kind, the state, the target's existence and its children.
C4_CheckModeNeverWrites ==
    (Done /\ inv.check_mode)
        => /\ Creates = {} /\ Deletes = {}
           /\ RemoteUntouched

C4_Witness ==
    /\ Absent /\ inv.check_mode /\ inv.kind = "zone"
    /\ ExistedBefore /\ ~ChildrenBefore /\ AllCallsOk
    /\ Len(calls) = 2 /\ Changed

\* C5: a present-state run outside check mode, on a target not in the
\* remote, with every remote call succeeding, issues exactly one create and
\* no delete; the create carries every translated attribute, each boolean
\* flag as 1 when the caller supplied True and 0 otherwise (None included);
\* the run ends with changed=true.
C5_BoolKeys ==
    CASE inv.kind = "zone" ->
            {"advertise-subnets", "bridge-disable-mac-learning",
             "disable-arp-nd-suppression", "exitnodes-local-routing"}
      [] inv.kind = "vnet" -> {"vlanaware"}
      [] inv.kind = "subnet" -> {"snat"}

C5_SentKeys ==
    CASE inv.kind = "zone" ->
            IF inv.params["type"] = "simple"
            THEN (DOMAIN inv.params \ {"state"}) \
                    {"vlan-protocol", "advertise-subnets", "exitnodes-local-routing",
                     "bridge-disable-mac-learning", "disable-arp-nd-suppression"}
            ELSE DOMAIN inv.params \ {"state"}
      [] OTHER -> DOMAIN inv.params \ {"state"}

C5_PresentNewCreatesOnce ==
    (Present /\ ~inv.check_mode /\ ~ExistedBefore /\ AllCallsOk)
        => /\ Cardinality(Creates) = 1
           /\ Deletes = {}
           /\ \A i \in Creates :
                /\ calls[i].coll = OwnCollection
                /\ DOMAIN calls[i].args = C5_SentKeys
                /\ \A k \in DOMAIN calls[i].args :
                      IF k \in C5_BoolKeys
                      THEN calls[i].args[k] = (IF inv.params[k] = PyTrue THEN 1 ELSE 0)
                      ELSE calls[i].args[k] = inv.params[k]
           /\ Changed

C5_Witness ==
    /\ Present /\ ~inv.check_mode /\ ~ExistedBefore /\ AllCallsOk
    /\ inv.kind = "zone" /\ inv.params["type"] = "vlan"
    /\ inv.params["advertise-subnets"] = PyTrue
    /\ \E i \in Creates : calls[i].args["advertise-subnets"] = 1
                          /\ calls[i].args["exitnodes-local-routing"] = 0
    /\ Changed /\ ExistsNow

\* C6: the attribute set a zone run passes to the create call has none of
\* the keys vlan-protocol, advertise-subnets, exitnodes-local-routing,
\* bridge-disable-mac-learning, disable-arp-nd-suppression when the type is
\* simple, whatever the caller supplied, and all of them for any other type.
C6_SimpleKeys ==
    {"vlan-protocol", "advertise-subnets", "exitnodes-local-routing",
     "bridge-disable-mac-learning", "disable-arp-nd-suppression"}

C6_SimpleZoneStripsKeys ==
    (Done /\ inv.kind = "zone")
        => \A i \in Creates :
              IF inv.params["type"] = "simple"
              THEN DOMAIN calls[i].args \cap C6_SimpleKeys = {}
              ELSE C6_SimpleKeys \subseteq DOMAIN calls[i].args

C6_Witness ==
    /\ Done /\ inv.kind = "zone" /\ inv.params["type"] = "simple"
    /\ inv.params["vlan-protocol"] = "802.1ad"
    /\ inv.params["bridge-disable-mac-learning"] = PyTrue
    /\ \E i \in Creates : calls[i].ok /\ "zone" \in DOMAIN calls[i].args
                          /\ "vlan-protocol" \notin DOMAIN calls[i].args

\* C7: an absent-state run outside check mode, on a resource that exists
\* and that no child references, with every remote call succeeding, issues
\* exactly one delete for that identifier, ends with changed=true, and the
\* resource is gone from the remote.
C7_AbsentExistingDeletesOnce ==
    (Absent /\ ~inv.check_mode /\ ExistedBefore /\ ~ChildrenBefore /\ AllCallsOk)
        => /\ Cardinality(Deletes) = 1
           /\ \A i \in Deletes : calls[i].item = TargetId
           /\ Changed
           /\ ~ExistsNow

\* C8: the remote calls of a run are at most two reads followed by at most
\* one write: no read after a write, at most one write, and no write before
\* the existence listing has been read.
C8_ReadsThenOneWrite ==
    /\ Cardinality(Reads) <= 2
    /\ Cardinality(Creates \cup Deletes) <= 1
    /\ \A i \in Creates \cup Deletes :
          /\ i = Len(calls)
          /\ i > 1
          /\ IsRead(calls[1]) /\ calls[1].ok /\ calls[1].coll = OwnCollection

C8_Witness ==
    /\ Done /\ Len(calls) = 3
    /\ IsRead(calls[1]) /\ IsRead(calls[2]) /\ calls[3].op = "delete"

\* C9: when a listing call (existence or child emptiness) fails, the run
\* ends in a fatal failure, never a success, and issues no create and no
\* delete: the failure is not read as "absent" or "empty".
C9_ListingFailureIsFatal ==
    (Done /\ \E i \in Reads : ~calls[i].ok)
        => /\ Fatal
           /\ Creates = {} /\ Deletes = {}
           /\ RemoteUntouched

C9_Witness ==
    /\ Absent /\ inv.kind = "zone" /\ ~inv.check_mode
    /\ Len(calls) = 2 /\ calls[1].ok /\ IsRead(calls[2]) /\ ~calls[2].ok
    /\ ~ChildrenBefore
    /\ Fatal

\* C10: when the create or delete call fails, the run ends through
\* fail_json with a message that carries the target identifier and the
\* cause; it never ends with a success result, and the failed call is the
\* last remote call of the run.
C10_WriteFailureIsFatal ==
    (Done /\ \E i \in Creates \cup Deletes : ~calls[i].ok)
        => /\ result.kind = "fail_json"
           /\ \E j \in 1..Len(result.msg) : result.msg[j] = TargetId
           /\ \E j \in 1..Len(result.msg) : result.msg[j] = ApiError
           /\ \A i \in Creates \cup Deletes : ~calls[i].ok => i = Len(calls)
           /\ RemoteUntouched

C10_Witness ==
    /\ Present /\ inv.kind = "vnet" /\ ~inv.check_mode
    /\ Len(calls) = 2 /\ calls[2].op = "post" /\ ~calls[2].ok
    /\ result.kind = "fail_json"

\* C11: over any sequence of runs, one after the other, the zone module
\* issues a delete call for a zone only from a remote in which no vnet has
\* that zone in its zone field, and a zone leaves the remote only while no
\* vnet references it.
C11_ZoneDeleteStep(z) ==
    /\ pc = "idle" /\ pc' = "done"
    /\ inv'.kind = "zone"
    /\ \E i \in 1..Len(calls') : calls'[i].op = "delete" /\ calls'[i].item = z

C11_ZoneDeletedOnlyWhenUnreferenced ==
    [][\A z \in ZoneIds :
         /\ C11_ZoneDeleteStep(z) => ~\E v \in vnets : v["zone"] = z
         /\ (z \in zones /\ z \notin zones')
               => /\ C11_ZoneDeleteStep(z)
                  /\ ~\E v \in vnets : v["zone"] = z
                  /\ ~\E v \in vnets' : v["zone"] = z]_vars

\* a zone was deleted, by a run that followed earlier runs, while vnets of
\* another zone stayed in the remote
C11_Witness ==
    /\ Absent /\ inv.kind = "zone" /\ ~inv.check_mode
    /\ Cardinality(Deletes) = 1 /\ AllCallsOk
    /\ TargetId \in pre.zones /\ TargetId \notin zones
    /\ \E v \in vnets : v["zone"] # TargetId /\ v["zone"] \notin pre.zones

-----------------------------------------------------------------------------
(* Properties of a task run twice (SpecTwice).                              *)

HasPrev == prev.inv.kind # "none"

\* both runs were the same task
SameTask == prev.inv.kind = inv.kind /\ prev.inv.params = inv.params

PrevCallsOk == \A i \in 1..Len(prev.calls) : prev.calls[i].ok

\* how a run ended, as the caller sees it
Outcome(r) ==
    CASE r.kind = "exit_json" -> IF r.changed THEN "changed=true" ELSE "changed=false"
      [] r.kind \in {"fail_json", "exception"} -> "fatal"

\* C12: for every kind, state and remote, when every remote call succeeds,
\* a check-mode run ends the way (changed=true, changed=false or fatal) the
\* run outside check mode with the same parameters ends when it starts from
\* the same remote.
C12_DryRunPredictsRealRun ==
    (Done /\ HasPrev /\ SameTask /\ prev.inv.check_mode /\ ~inv.check_mode
        /\ PrevCallsOk /\ AllCallsOk)
        => /\ prev.pre = pre
           /\ Outcome(prev.result) = Outcome(result)

C12_Witness ==
    /\ Done /\ HasPrev /\ SameTask /\ prev.inv.check_mode /\ ~inv.check_mode
    /\ PrevCallsOk /\ AllCallsOk
    /\ Absent /\ inv.kind = "zone" /\ ExistedBefore /\ ~ChildrenBefore
    /\ prev.calls = <<calls[1], calls[2]>>
    /\ Cardinality(Deletes) = 1
    /\ Outcome(prev.result) = "changed=true" /\ Outcome(result) = "changed=true"

\* C13: for every kind and state, when a run outside check mode ends
\* successfully and the same task is run again on the remote it left, with
\* nothing changed in between, the second run reports changed=false and
\* issues no create and no delete.
C13_SecondRunIsNoop ==
    (Done /\ HasPrev /\ SameTask /\ ~prev.inv.check_mode /\ ~inv.check_mode
        /\ prev.result.kind = "exit_json" /\ AllCallsOk)
        => /\ Unchanged
           /\ Creates = {} /\ Deletes = {}

====
